---- MODULE Spec2Model ----
(***************************************************************************)
(* Model of the chunking engine of src/src/chunker.rs: Chunker::find_chunks *)
(* and Chunker::find_chunks_and_analyze_stack drive find_next_chunk, which  *)
(* packs StructuredScripts popped from call_stack into one Chunk and calls  *)
(* undo to remove the unbalanced tail held in UndoInfo.                     *)
(***************************************************************************)
EXTENDS Integers, Sequences, FiniteSets, TLC

(***************************************************************************)
(* Bounds of the model.                                                    *)
(***************************************************************************)
\* The generic programs have 1..MaxBlocks top-level blocks.
MaxBlocks == 2
\* The generic programs are chunked with target_chunk_size in 0..MaxTarget.
MaxTarget == 4
\* The first loop of find_chunks_and_analyze_stack has no exit while the
\* call_stack is non-empty; the model follows it until it holds MaxZeroChunks
\* chunks of size zero.
MaxZeroChunks == 2

(***************************************************************************)
(* Instructions and scripts (bitcoin::script, consumed by the chunker).    *)
(* An instruction is its opcode and its length in bytes.                   *)
(***************************************************************************)
Ins(op, n) == [op |-> op, len |-> n]
OP_IF == Ins("OP_IF", 1)
OP_NOTIF == Ins("OP_NOTIF", 1)
OP_ENDIF == Ins("OP_ENDIF", 1)
OP_1 == Ins("OP_1", 1)
OP_ADD == Ins("OP_ADD", 1)
\* a push of n-1 bytes of data: one instruction of n bytes
Push(n) == Ins("OP_PUSHBYTES", n)

IsFlowOp(ins) == ins.op \in {"OP_IF", "OP_NOTIF", "OP_ENDIF"}

RECURSIVE ScriptLen(_)
ScriptLen(s) == IF s = <<>> THEN 0 ELSE Head(s).len + ScriptLen(Tail(s))

InsDepth(ins) ==
    IF ins.op \in {"OP_IF", "OP_NOTIF"} THEN 1
    ELSE IF ins.op = "OP_ENDIF" THEN -1 ELSE 0

RECURSIVE ScriptDepth(_)
ScriptDepth(s) == IF s = <<>> THEN 0 ELSE InsDepth(Head(s)) + ScriptDepth(Tail(s))

(***************************************************************************)
(* Blocks and StructuredScripts (crate::builder).                          *)
(***************************************************************************)
CallBlock(id) == [kind |-> "Call", id |-> id, script |-> <<>>]
ScriptBlock(s) == [kind |-> "Script", id |-> 0, script |-> s]
Structured(bs) == [blocks |-> bs]
\* StructuredScript::new("").push_script(script_buf)
push_script(s) == Structured(<<ScriptBlock(s)>>)

\* The named sub-scripts a Block::Call refers to.  Ids 21..30 nest one leaf
\* ten calls deep; ids 41..48 nest a script of two script_bufs and no call
\* eight calls deep.
script_map ==
    [id \in (1..8) \cup (20..30) \cup (40..48) |->
        CASE id = 1 -> push_script(<<OP_IF>>)
          [] id = 2 -> push_script(<<OP_ENDIF>>)
          [] id = 3 -> push_script(<<OP_1, OP_ADD>>)
          [] id = 4 -> Structured(<<CallBlock(1), ScriptBlock(<<OP_1>>), CallBlock(2)>>)
          [] id = 5 -> Structured(<<ScriptBlock(<<OP_1, OP_NOTIF>>), CallBlock(3),
                                    ScriptBlock(<<OP_ENDIF, Push(2)>>)>>)
          [] id = 6 -> Structured(<<CallBlock(4), CallBlock(3)>>)
          [] id = 7 -> push_script(<<Push(50)>>)
          [] id = 8 -> Structured(<<CallBlock(7), CallBlock(7), CallBlock(7), CallBlock(7)>>)
          [] id = 20 -> push_script(<<Push(2), OP_1>>)
          [] id = 40 -> Structured(<<ScriptBlock(<<Push(2)>>), ScriptBlock(<<OP_1>>)>>)
          [] OTHER -> Structured(<<CallBlock(id - 1)>>)]

RECURSIVE len(_)
RECURSIVE BlocksLen(_)
BlockLen(b) ==
    IF b.kind = "Call" THEN len(script_map[b.id]) ELSE ScriptLen(b.script)
BlocksLen(bs) == IF bs = <<>> THEN 0 ELSE BlockLen(Head(bs)) + BlocksLen(Tail(bs))
\* StructuredScript::len
len(builder) == BlocksLen(builder.blocks)

RECURSIVE num_unclosed_ifs(_)
RECURSIVE BlocksDepth(_)
BlockDepth(b) ==
    IF b.kind = "Call" THEN num_unclosed_ifs(script_map[b.id]) ELSE ScriptDepth(b.script)
BlocksDepth(bs) == IF bs = <<>> THEN 0 ELSE BlockDepth(Head(bs)) + BlocksDepth(Tail(bs))
\* StructuredScript::num_unclosed_ifs: OP_IF/OP_NOTIF minus OP_ENDIF
num_unclosed_ifs(builder) == BlocksDepth(builder.blocks)

\* The instruction stream of a StructuredScript (what compiling it emits).
RECURSIVE Flatten(_)
RECURSIVE FlattenBlocks(_)
FlattenBlock(b) ==
    IF b.kind = "Call" THEN Flatten(script_map[b.id]) ELSE b.script
FlattenBlocks(bs) ==
    IF bs = <<>> THEN <<>> ELSE FlattenBlock(Head(bs)) \o FlattenBlocks(Tail(bs))
Flatten(builder) == FlattenBlocks(builder.blocks)

\* StructuredScript::contains_flow_op
contains_flow_op(builder) ==
    LET s == Flatten(builder) IN \E i \in 1..Len(s) : IsFlowOp(s[i])

\* StructuredScript::is_script_buf
is_script_buf(builder) ==
    Len(builder.blocks) = 1 /\ builder.blocks[1].kind = "Script"

(***************************************************************************)
(* Inputs: the top-level script and the target size given to Chunker::new, *)
(* and the driver that is called on the Chunker.                           *)
(***************************************************************************)
TopBlocks ==
    { ScriptBlock(<<OP_1>>), ScriptBlock(<<Push(2), OP_ADD>>),
      ScriptBlock(<<OP_1, OP_IF>>), ScriptBlock(<<OP_ENDIF>>),
      ScriptBlock(<<OP_ENDIF, OP_1>>), ScriptBlock(<<>>),
      CallBlock(1), CallBlock(3), CallBlock(4), CallBlock(5), CallBlock(6),
      CallBlock(30) }

RECURSIVE BlockSeqs(_)
BlockSeqs(n) ==
    IF n = 0 THEN {<<>>}
    ELSE LET shorter == BlockSeqs(n - 1)
         IN shorter \cup {Append(bs, b) : bs \in {x \in shorter : Len(x) = n - 1}, b \in TopBlocks}

GenericScripts == {Structured(bs) : bs \in BlockSeqs(MaxBlocks) \ {<<>>}}

\* three leaves of 40 bytes
ScenarioA ==
    Structured(<<ScriptBlock(<<Push(40)>>), ScriptBlock(<<Push(40)>>),
                 ScriptBlock(<<Push(40)>>)>>)

\* an open-conditional leaf, 200 bytes of unconditioned content, a
\* close-conditional leaf; the content is one leaf, or four leaves of 50
\* behind a call, and the open leaf is the opcode alone or 5 bytes
ScenarioBScripts ==
    { Structured(<<open, middle, CallBlock(2)>>) :
        open \in {CallBlock(1), ScriptBlock(<<Push(4), OP_IF>>)},
        middle \in {ScriptBlock(<<Push(200)>>), CallBlock(8),
                    ScriptBlock(<<Push(50), Push(50), Push(50), Push(50)>>)} }

\* a script of two script_bufs and no call, 4 bytes, behind eight nested
\* calls, alone or after a script_buf
NestedScripts ==
    { Structured(<<CallBlock(48)>>),
      Structured(<<ScriptBlock(<<OP_1>>), CallBlock(48)>>) }

Inputs ==
    (GenericScripts \X (0..MaxTarget))
        \cup (({ScenarioA} \cup ScenarioBScripts) \X {90, 100})
        \cup (NestedScripts \X {1, 2})

Drivers == {"find_chunks", "find_chunks_and_analyze_stack"}

(***************************************************************************)
(* State.                                                                  *)
(***************************************************************************)
VARIABLES
    driver,             \* which of the two public drivers runs
    top_level_script,   \* the argument of Chunker::new
    target_chunk_size,  \* Chunker.target_chunk_size
    call_stack,         \* Chunker.call_stack, top of the stack last
    chunks,             \* Chunker.chunks
    result,             \* find_chunks: the local result (chunk sizes)
    local_chunks,       \* find_chunks_and_analyze_stack: the local chunks
    pc,                 \* position of the run
    panic,              \* which panic! or assert! ended the run, "" if none
    chunk_scripts,      \* find_next_chunk locals
    chunk_len,
    undo_info,
    depth,
    removed_scripts,    \* undo locals
    removed_len,
    chunk,              \* the Chunk find_next_chunk returned to its caller
    i,                  \* index of the stats loop
    status              \* the StackStatus stack_analyze returned last

driverVars == <<chunks, result, local_chunks, chunk, i, status>>
packVars == <<chunk_scripts, chunk_len, undo_info, depth>>
undoVars == <<removed_scripts, removed_len>>
inputVars == <<driver, top_level_script, target_chunk_size>>
vars == <<inputVars, call_stack, pc, panic, driverVars, packVars, undoVars>>

max_depth == 8

\* UndoInfo::new
UndoInfoNew == [call_stack |-> <<>>, size |-> 0, num_unclosed_ifs |-> 0]

\* UndoInfo::update without the builder's unclosed ifs
UndoInfoUpdateNoDepth(info, builder) ==
    [call_stack |-> Append(info.call_stack, builder),
     size |-> info.size + len(builder),
     num_unclosed_ifs |-> info.num_unclosed_ifs]

\* UndoInfo::update
UndoInfoUpdate(info, builder) ==
    [call_stack |-> Append(info.call_stack, builder),
     size |-> info.size + len(builder),
     num_unclosed_ifs |-> info.num_unclosed_ifs + num_unclosed_ifs(builder)]

\* Chunk::new
ChunkNew(scripts, size) == [scripts |-> scripts, size |-> size, stats |-> <<>>]

NoStatus ==
    [deepest_stack_accessed |-> 0, stack_changed |-> 0,
     deepest_altstack_accessed |-> 0, altstack_changed |-> 0]

Last(s) == s[Len(s)]
Front(s) == SubSeq(s, 1, Len(s) - 1)

RECURSIVE Reverse(_)
Reverse(s) == IF s = <<>> THEN <<>> ELSE Append(Reverse(Tail(s)), Head(s))

\* Chunker::new, followed by a call of one of the two drivers
Init ==
    /\ driver \in Drivers
    /\ \E input \in Inputs :
        /\ top_level_script = input[1]
        /\ target_chunk_size = input[2]
        /\ call_stack = <<input[1]>>
    /\ chunks = <<>>
    /\ result = <<>>
    /\ local_chunks = <<>>
    /\ pc = "loop"
    /\ panic = ""
    /\ chunk_scripts = <<>>
    /\ chunk_len = 0
    /\ undo_info = UndoInfoNew
    /\ depth = 0
    /\ removed_scripts = <<>>
    /\ removed_len = 0
    /\ chunk = ChunkNew(<<>>, 0)
    /\ i = 0
    /\ status = NoStatus

(***************************************************************************)
(* find_next_chunk: the packing loop.  One action per way an iteration of  *)
(* the loop can go.                                                        *)
(***************************************************************************)
\* Fits without the builder's length: the test looks at the chunk alone
FitsChunkOnly(cl, block_len) == cl <= target_chunk_size

\* Fits with an empty chunk taking whatever comes first
FitsWhenEmpty(cl, block_len) == cl = 0 \/ cl + block_len <= target_chunk_size

\* Fits with < for <=
FitsStrictly(cl, block_len) == cl + block_len < target_chunk_size

\* line 224: adding the builder keeps the chunk within the target
Fits(cl, block_len) == cl + block_len <= target_chunk_size

\* ClosesAll without the builder's own unclosed ifs
ClosesAllLedgerOnly(info, builder) == info.num_unclosed_ifs = 0

\* line 229: with the builder, every OP_IF of the ledger is closed
ClosesAll(info, builder) == info.num_unclosed_ifs + num_unclosed_ifs(builder) = 0

\* MayExpand without the test of depth
MayExpandAnyDepth(cl, block_len, d) ==
    cl + block_len > target_chunk_size /\ cl < target_chunk_size

\* lines 241-242: the builder is too large and the chunk has room left
MayExpand(cl, block_len, d) ==
    cl + block_len > target_chunk_size /\ (cl < target_chunk_size /\ d <= max_depth)

\* lines 253-268: what expanding a builder pushes onto the call_stack, in
\* the order pushed (its blocks reversed)
ChildOf(block) ==
    IF block.kind = "Call" THEN script_map[block.id] ELSE push_script(block.script)

RECURSIVE Children(_)
Children(bs) == IF bs = <<>> THEN <<>> ELSE <<ChildOf(Head(bs))>> \o Children(Tail(bs))

\* ExpandPushes with the blocks pushed left to right
ExpandPushesInOrder(builder) == Children(builder.blocks)

ExpandPushes(builder) == Children(Reverse(builder.blocks))

\* line 260
contains_call(builder) ==
    \E k \in 1..Len(builder.blocks) : builder.blocks[k].kind = "Call"

\* AssertNotNegative with the assert! left out
AssertNothing(info, builder) == TRUE

\* lines 215-220: the assert! at the head of an iteration
AssertNotNegative(info, builder) ==
    info.num_unclosed_ifs + num_unclosed_ifs(builder) >= 0

\* lines 210-213: the call_stack is empty, the loop ends
PackEmpty ==
    /\ pc = "pack"
    /\ call_stack = <<>>
    /\ pc' = "undo_entry"
    /\ UNCHANGED <<inputVars, call_stack, panic, driverVars, packVars, undoVars>>

\* lines 215-220: the assert! fails
PackAssertFails ==
    /\ pc = "pack"
    /\ call_stack # <<>>
    /\ ~AssertNotNegative(undo_info, Last(call_stack))
    /\ pc' = "panicked"
    /\ panic' = "more_endif_than_if"
    /\ call_stack' = Front(call_stack)
    /\ UNCHANGED <<inputVars, driverVars, packVars, undoVars>>

\* lines 224-240: the builder fits and is committed
PackCommit ==
    /\ pc = "pack"
    /\ call_stack # <<>>
    /\ LET builder == Last(call_stack) IN
        /\ AssertNotNegative(undo_info, builder)
        /\ Fits(chunk_len, len(builder))
        /\ chunk_len' = chunk_len + len(builder)
        /\ IF ClosesAll(undo_info, builder)
           THEN /\ chunk_scripts' = (chunk_scripts \o undo_info.call_stack) \o <<builder>>
                /\ undo_info' = UndoInfoNew
           ELSE /\ undo_info' = UndoInfoUpdate(undo_info, builder)
                /\ UNCHANGED chunk_scripts
    /\ depth' = 0
    /\ call_stack' = Front(call_stack)
    /\ UNCHANGED <<inputVars, pc, panic, driverVars, undoVars>>

\* lines 241-251: a script_buf that does not fit is pushed back
PackLeafPushBack ==
    /\ pc = "pack"
    /\ call_stack # <<>>
    /\ LET builder == Last(call_stack) IN
        /\ AssertNotNegative(undo_info, builder)
        /\ ~Fits(chunk_len, len(builder))
        /\ MayExpand(chunk_len, len(builder), depth)
        /\ is_script_buf(builder)
    /\ pc' = "undo_entry"
    /\ UNCHANGED <<inputVars, call_stack, panic, driverVars, packVars, undoVars>>

\* lines 241-274: a builder that does not fit is replaced by its blocks
PackExpand ==
    /\ pc = "pack"
    /\ call_stack # <<>>
    /\ LET builder == Last(call_stack) IN
        /\ AssertNotNegative(undo_info, builder)
        /\ ~Fits(chunk_len, len(builder))
        /\ MayExpand(chunk_len, len(builder), depth)
        /\ ~is_script_buf(builder)
        /\ call_stack' = Front(call_stack) \o ExpandPushes(builder)
        /\ IF contains_call(builder) \/ depth <= max_depth
           THEN /\ depth' = depth + 1
                /\ UNCHANGED <<pc, panic>>
           ELSE /\ pc' = "panicked"
                /\ panic' = "no_support_for_chunking_up_scriptbufs"
                /\ UNCHANGED depth
    /\ UNCHANGED <<inputVars, driverVars, chunk_scripts, chunk_len, undo_info, undoVars>>

\* lines 275-278: the builder is pushed back and the loop ends
PackPushBack ==
    /\ pc = "pack"
    /\ call_stack # <<>>
    /\ LET builder == Last(call_stack) IN
        /\ AssertNotNegative(undo_info, builder)
        /\ ~Fits(chunk_len, len(builder))
        /\ ~MayExpand(chunk_len, len(builder), depth)
    /\ pc' = "undo_entry"
    /\ UNCHANGED <<inputVars, call_stack, panic, driverVars, packVars, undoVars>>

(***************************************************************************)
(* undo: removes scripts from the end of the ledger until every OP_IF is   *)
(* closed, and find_next_chunk's use of what it returns.                   *)
(***************************************************************************)
\* lines 157-182: a script_buf split at OP_IF/OP_NOTIF/OP_ENDIF, as the
\* StructuredScripts pushed, in the order pushed; tmp is tmp_script
RECURSIVE SplitScript(_, _)
SplitScript(script_buf, tmp) ==
    IF script_buf = <<>>
    THEN IF tmp = <<>> THEN <<>> ELSE <<push_script(tmp)>>
    ELSE IF IsFlowOp(Head(script_buf))
         THEN <<push_script(tmp), push_script(<<Head(script_buf)>>)>>
                  \o SplitScript(Tail(script_buf), <<>>)
         ELSE SplitScript(Tail(script_buf), Append(tmp, Head(script_buf)))

\* lines 150-185: what decomposing a builder pushes onto the ledger
RECURSIVE DecomposeBlocks(_)
DecomposeBlocks(bs) ==
    IF bs = <<>> THEN <<>>
    ELSE (IF Head(bs).kind = "Call"
          THEN <<script_map[Head(bs).id]>>
          ELSE SplitScript(Head(bs).script, <<>>)) \o DecomposeBlocks(Tail(bs))

\* Decompose without the split of a script_buf at its flow-control opcodes
DecomposeWhole(builder) == Children(builder.blocks)

Decompose(builder) == DecomposeBlocks(builder.blocks)

\* line 142: the builder is one flow-control opcode
IsFlowLeaf(builder) == is_script_buf(builder) /\ len(builder) = 1

\* CountAfterRemoving with every flow-control opcode counted as an OP_IF
CountAfterRemovingOpener(info, builder) == info.num_unclosed_ifs - 1

\* line 143: the open count once a flow-control opcode is removed
CountAfterRemoving(info, builder) == info.num_unclosed_ifs - num_unclosed_ifs(builder)

\* AllClosed with one OP_IF left open
AllClosedButOne(n) == n <= 1

\* line 146: the removing loop ends
AllClosed(n) == n = 0

\* ExtendCallStack with the scripts without flow-control opcodes discarded
ExtendCallStackDropPlain(stack, removed) == stack \o SelectSeq(removed, contains_flow_op)

\* ExtendCallStack with the removed scripts in the order of the program's
\* end first
ExtendCallStackReversed(stack, removed) == stack \o Reverse(removed)

\* line 195: the removed scripts go back onto the call_stack
ExtendCallStack(stack, removed) == stack \o removed

\* FinishChunk without the removed length subtracted
FinishChunkNoSubtract(scripts, kept, cl, removed) == ChunkNew(scripts \o kept, cl)

\* lines 283-286: the chunk find_next_chunk returns
FinishChunk(scripts, kept, cl, removed) == ChunkNew(scripts \o kept, cl - removed)

ResetLocals ==
    /\ chunk_scripts' = <<>>
    /\ chunk_len' = 0
    /\ undo_info' = UndoInfoNew
    /\ depth' = 0
    /\ removed_scripts' = <<>>
    /\ removed_len' = 0

\* lines 129-131 and 282-286: nothing is open, undo returns (vec![], 0)
UndoNothing ==
    /\ pc = "undo_entry"
    /\ undo_info.num_unclosed_ifs = 0
    /\ chunk' = FinishChunk(chunk_scripts, <<>>, chunk_len, 0)
    /\ pc' = "chunk"
    /\ ResetLocals
    /\ UNCHANGED <<inputVars, call_stack, panic, chunks, result, local_chunks, i, status>>

\* lines 133-134: the removing loop is entered
UndoBegin ==
    /\ pc = "undo_entry"
    /\ undo_info.num_unclosed_ifs # 0
    /\ removed_scripts' = <<>>
    /\ removed_len' = 0
    /\ pc' = "undo"
    /\ UNCHANGED <<inputVars, call_stack, panic, driverVars, packVars>>

\* lines 136-193: one iteration of the removing loop
UndoStep ==
    /\ pc = "undo"
    /\ IF undo_info.call_stack = <<>>
       THEN /\ pc' = "panicked"
            /\ panic' = "not_all_if_closed"
            /\ UNCHANGED <<undo_info, undoVars>>
       ELSE LET builder == Last(undo_info.call_stack)
                rest == Front(undo_info.call_stack)
            IN  /\ UNCHANGED panic
                /\ IF contains_flow_op(builder)
                   THEN IF IsFlowLeaf(builder)
                        THEN LET n == CountAfterRemoving(undo_info, builder)
                             IN /\ undo_info' = [undo_info EXCEPT !.call_stack = rest,
                                                                 !.num_unclosed_ifs = n]
                                /\ removed_len' = removed_len + len(builder)
                                /\ removed_scripts' = Append(removed_scripts, builder)
                                /\ pc' = IF AllClosed(n) THEN "undo_done" ELSE "undo"
                        ELSE /\ undo_info' = [undo_info EXCEPT
                                                !.call_stack = rest \o Decompose(builder)]
                             /\ UNCHANGED <<undoVars, pc>>
                   ELSE /\ undo_info' = [undo_info EXCEPT !.call_stack = rest]
                        /\ removed_len' = removed_len + len(builder)
                        /\ removed_scripts' = Append(removed_scripts, builder)
                        /\ UNCHANGED pc
    /\ UNCHANGED <<inputVars, call_stack, driverVars, chunk_scripts, chunk_len, depth>>

\* lines 195-196 and 282-286: undo returns and the chunk is built
UndoReturn ==
    /\ pc = "undo_done"
    /\ call_stack' = ExtendCallStack(call_stack, removed_scripts)
    /\ chunk' = FinishChunk(chunk_scripts, undo_info.call_stack, chunk_len, removed_len)
    /\ pc' = "chunk"
    /\ ResetLocals
    /\ UNCHANGED <<inputVars, panic, chunks, result, local_chunks, i, status>>

(***************************************************************************)
(* find_chunks                                                             *)
(***************************************************************************)
\* IsZeroSize with the check left out
IsZeroSizeNever(c) == FALSE

\* line 293
IsZeroSize(c) == c.size = 0

\* lines 291-292 and 199-207: the call_stack is not empty, find_next_chunk
\* is called
FindChunksNext ==
    /\ pc = "loop"
    /\ driver = "find_chunks"
    /\ call_stack # <<>>
    /\ pc' = "pack"
    /\ ResetLocals
    /\ UNCHANGED <<inputVars, call_stack, panic, driverVars>>

\* lines 293-295: a chunk of size zero
FindChunksPanic ==
    /\ pc = "chunk"
    /\ driver = "find_chunks"
    /\ IsZeroSize(chunk)
    /\ pc' = "panicked"
    /\ panic' = "unable_to_fit"
    /\ UNCHANGED <<inputVars, call_stack, driverVars, packVars, undoVars>>

\* lines 296-297
FindChunksPush ==
    /\ pc = "chunk"
    /\ driver = "find_chunks"
    /\ ~IsZeroSize(chunk)
    /\ result' = Append(result, chunk.size)
    /\ chunks' = Append(chunks, chunk)
    /\ pc' = "loop"
    /\ UNCHANGED <<inputVars, call_stack, panic, local_chunks, chunk, i, status,
                   packVars, undoVars>>

\* lines 291 and 299: the call_stack is empty, result is returned
FindChunksReturn ==
    /\ pc = "loop"
    /\ driver = "find_chunks"
    /\ call_stack = <<>>
    /\ pc' = "returned"
    /\ UNCHANGED <<inputVars, call_stack, panic, driverVars, packVars, undoVars>>

(***************************************************************************)
(* find_chunks_and_analyze_stack                                          *)
(***************************************************************************)
\* as usize of an i32: the value modulo 2^w, w the pointer width (16 here,
\* the least one): a negative value becomes a large positive one
AsUsize(x) == x % (2 ^ 16)

Abs(x) == IF x < 0 THEN -x ELSE x

\* ChunkStats without abs(): the deepest access is cast as it is
ChunkStatsNoAbs(st) ==
    [stack_input_size |-> AsUsize(st.deepest_stack_accessed),
     stack_output_size |-> AsUsize(st.stack_changed - st.deepest_stack_accessed),
     altstack_input_size |-> AsUsize(st.deepest_altstack_accessed),
     altstack_output_size |-> AsUsize(st.altstack_changed - st.deepest_altstack_accessed)]

\* lines 108-118
ChunkStats(st) ==
    [stack_input_size |-> AsUsize(Abs(st.deepest_stack_accessed)),
     stack_output_size |-> AsUsize(st.stack_changed - st.deepest_stack_accessed),
     altstack_input_size |-> AsUsize(Abs(st.deepest_altstack_accessed)),
     altstack_output_size |-> AsUsize(st.altstack_changed - st.deepest_altstack_accessed)]

\* What StackAnalyzer::analyze_blocks may return for a chunk: the deepest
\* access is at or below the initial top, and the stack does not end below
\* the deepest item accessed.
StackStatuses ==
    { [deepest_stack_accessed |-> 0, stack_changed |-> 0,
       deepest_altstack_accessed |-> 0, altstack_changed |-> 0],
      [deepest_stack_accessed |-> 0, stack_changed |-> 2,
       deepest_altstack_accessed |-> 0, altstack_changed |-> 1],
      [deepest_stack_accessed |-> -1, stack_changed |-> -1,
       deepest_altstack_accessed |-> -2, altstack_changed |-> 0],
      [deepest_stack_accessed |-> -2, stack_changed |-> 1,
       deepest_altstack_accessed |-> -1, altstack_changed |-> -1] }

ZeroChunks(cs) == {k \in 1..Len(cs) : cs[k].size = 0}

\* lines 101-102 and 199-207
AnalyzeNext ==
    /\ pc = "loop"
    /\ driver = "find_chunks_and_analyze_stack"
    /\ call_stack # <<>>
    /\ Cardinality(ZeroChunks(local_chunks)) < MaxZeroChunks
    /\ pc' = "pack"
    /\ ResetLocals
    /\ UNCHANGED <<inputVars, call_stack, panic, driverVars>>

\* line 103
AnalyzePush ==
    /\ pc = "chunk"
    /\ driver = "find_chunks_and_analyze_stack"
    /\ local_chunks' = Append(local_chunks, chunk)
    /\ pc' = "loop"
    /\ UNCHANGED <<inputVars, call_stack, panic, chunks, result, chunk, i, status,
                   packVars, undoVars>>

\* lines 101 and 105: the call_stack is empty, the stats loop starts
AnalyzeStatsBegin ==
    /\ pc = "loop"
    /\ driver = "find_chunks_and_analyze_stack"
    /\ call_stack = <<>>
    /\ i' = 1
    /\ pc' = "stats"
    /\ UNCHANGED <<inputVars, call_stack, panic, chunks, result, local_chunks, chunk,
                   status, packVars, undoVars>>

\* lines 105-119: one iteration of the stats loop
AnalyzeStats ==
    /\ pc = "stats"
    /\ i <= Len(local_chunks)
    /\ \E st \in StackStatuses :
        /\ status' = st
        /\ local_chunks' = [local_chunks EXCEPT ![i].stats = <<ChunkStats(st)>>]
    /\ i' = i + 1
    /\ UNCHANGED <<inputVars, call_stack, pc, panic, chunks, result, chunk,
                   packVars, undoVars>>

\* line 120
AnalyzeReturn ==
    /\ pc = "stats"
    /\ i > Len(local_chunks)
    /\ pc' = "returned"
    /\ UNCHANGED <<inputVars, call_stack, panic, driverVars, packVars, undoVars>>

FindNextChunk ==
    \/ PackEmpty \/ PackAssertFails \/ PackCommit \/ PackLeafPushBack
    \/ PackExpand \/ PackPushBack
    \/ UndoNothing \/ UndoBegin \/ UndoStep \/ UndoReturn

FindChunks ==
    FindChunksNext \/ FindChunksPanic \/ FindChunksPush \/ FindChunksReturn

FindChunksAndAnalyzeStack ==
    AnalyzeNext \/ AnalyzePush \/ AnalyzeStatsBegin \/ AnalyzeStats \/ AnalyzeReturn

Next == FindNextChunk \/ FindChunks \/ FindChunksAndAnalyzeStack

Spec == Init /\ [][Next]_vars

\* A run of find_chunks alone.  It is one thread that is never suspended:
\* it takes its next step.
NextFindChunks == FindNextChunk \/ FindChunks

InitFindChunks == Init /\ driver = "find_chunks"

FairSpec == InitFindChunks /\ [][NextFindChunks]_vars /\ WF_vars(NextFindChunks)

(***************************************************************************)
(* Vocabulary of the properties.                                           *)
(***************************************************************************)
RECURSIVE StreamOf(_)
\* the instruction stream of a sequence of StructuredScripts
StreamOf(scripts) ==
    IF scripts = <<>> THEN <<>> ELSE Flatten(Head(scripts)) \o StreamOf(Tail(scripts))

RECURSIVE ChunksStream(_)
\* the instruction stream of a sequence of chunks
ChunksStream(cs) ==
    IF cs = <<>> THEN <<>> ELSE StreamOf(Head(cs).scripts) \o ChunksStream(Tail(cs))

\* the chunks the running driver has collected
Produced == IF driver = "find_chunks" THEN chunks ELSE local_chunks

\* every chunk a find_next_chunk call has returned so far
Finalized == IF pc = "chunk" THEN Append(Produced, chunk) ELSE Produced

ChunkDepth(c) == ScriptDepth(StreamOf(c.scripts))

\* a chunk that is exactly one script_buf larger than the target
IsOversizedLeaf(c) ==
    /\ Len(c.scripts) = 1
    /\ is_script_buf(c.scripts[1])
    /\ len(c.scripts[1]) > target_chunk_size

\* C1: when a driver returns, the chunks' scripts, concatenated in chunk
\* order, are the instruction stream of the top-level script.
C1_Reconstruction ==
    pc = "returned" => ChunksStream(Produced) = Flatten(top_level_script)

\* find_chunks returned two chunks after undo took an open OP_IF and the
\* script behind it out of the first one
C1_Witness ==
    /\ pc = "returned"
    /\ driver = "find_chunks"
    /\ top_level_script = Structured(<<ScriptBlock(<<OP_1>>), CallBlock(4)>>)
    /\ target_chunk_size = 3
    /\ result = <<1, 3>>

\* C2: every chunk find_next_chunk returns has net unclosed depth 0, unless
\* it is exactly one oversized script_buf.
C2_Balance ==
    \A k \in 1..Len(Finalized) :
        ChunkDepth(Finalized[k]) = 0 \/ IsOversizedLeaf(Finalized[k])

\* find_next_chunk returns a chunk that holds a closed conditional while
\* more of the program is left
C2_Witness ==
    /\ pc = "chunk"
    /\ \E k \in 1..Len(StreamOf(chunk.scripts)) : IsFlowOp(StreamOf(chunk.scripts)[k])
    /\ call_stack # <<>>

\* C3: the running chunk_len never exceeds target_chunk_size, and every
\* chunk returned, unless it is exactly one oversized script_buf, has its
\* size and the length of its scripts <= target_chunk_size.
C3_SizeBound ==
    /\ chunk_len <= target_chunk_size
    /\ \A k \in 1..Len(Finalized) :
        \/ IsOversizedLeaf(Finalized[k])
        \/ /\ Finalized[k].size <= target_chunk_size
           /\ ScriptLen(StreamOf(Finalized[k].scripts)) <= target_chunk_size

\* a chunk is filled exactly to the target while more of the program is left
C3_Witness ==
    /\ pc = "chunk"
    /\ target_chunk_size > 0
    /\ chunk.size = target_chunk_size
    /\ call_stack # <<>>

\* opens minus closes over the whole top-level script
NetDepth == ScriptDepth(Flatten(top_level_script))

\* C4: a top-level script with more OP_ENDIF than OP_IF/OP_NOTIF makes the
\* run panic at the assert! of find_next_chunk; no chunk is finalized and
\* no driver returns.
C4_MoreClosesAbort ==
    NetDepth < 0 =>
        /\ pc \in {"loop", "pack", "panicked"}
        /\ pc = "panicked" => panic = "more_endif_than_if"
        /\ Finalized = <<>>

\* a script with two more closes than opens has made the run panic
C4_Witness ==
    /\ NetDepth = -2
    /\ pc = "panicked"
    /\ panic = "more_endif_than_if"

RECURSIVE LeafLens(_)
\* the lengths of the script_bufs of a StructuredScript
LeafLens(builder) ==
    UNION { IF builder.blocks[k].kind = "Call"
            THEN LeafLens(script_map[builder.blocks[k].id])
            ELSE {ScriptLen(builder.blocks[k].script)} : k \in 1..Len(builder.blocks) }

\* the target is smaller than the smallest leaf
TargetBelowLeaves == \A n \in LeafLens(top_level_script) : target_chunk_size < n

\* find_chunks never keeps a chunk of size zero
NoZeroSizeKept ==
    driver = "find_chunks" =>
        \A k \in 1..Len(chunks) : chunks[k].size # 0 /\ result[k] # 0

\* some prefix of the top-level script's instructions closes more
\* conditionals than it opens
ClosesBeforeOpens ==
    LET s == Flatten(top_level_script)
    IN \E k \in 1..Len(s) : ScriptDepth(SubSeq(s, 1, k)) < 0

\* C5 as claimed: find_chunks never keeps a chunk of size zero, and with
\* a positive target smaller than the smallest leaf the run does not return
\* and a panic is the one of the zero-size chunk.
C5_ZeroSizeAbortOnly ==
    /\ NoZeroSizeKept
    /\ (driver = "find_chunks" /\ TargetBelowLeaves /\ target_chunk_size > 0) =>
        /\ pc # "returned"
        /\ pc = "panicked" => panic = "unable_to_fit"

\* C5 as amended: with the target smaller than the smallest leaf the run
\* does not return and produces no chunk; its panic is the one of the
\* zero-size chunk or, only if the script closes a conditional before it
\* is opened, the assert! of find_next_chunk.
C5_ZeroSizeAbort ==
    /\ NoZeroSizeKept
    /\ (driver = "find_chunks" /\ TargetBelowLeaves) =>
        /\ pc # "returned"
        /\ chunks = <<>>
        /\ pc = "panicked" => panic \in {"unable_to_fit", "more_endif_than_if"}
        /\ (pc = "panicked" /\ panic = "more_endif_than_if") =>
              ClosesBeforeOpens

\* find_chunks panicked on a zero-size chunk with a positive target
\* smaller than every leaf
C5_Witness ==
    /\ driver = "find_chunks"
    /\ TargetBelowLeaves
    /\ target_chunk_size > 0
    /\ pc = "panicked"
    /\ panic = "unable_to_fit"

Done == pc \in {"returned", "panicked"}

\* C6: every run of find_chunks eventually returns or panics; Done is
\* outside the packing loop of find_next_chunk and the removing loop of
\* undo, so neither loop runs forever.
C6_Termination == <>Done

\* find_chunks returned after several chunks
C6_Witness ==
    /\ driver = "find_chunks"
    /\ pc = "returned"
    /\ Len(result) >= 3

\* C7 as claimed: find_chunks_and_analyze_stack produces what find_chunks
\* produces; find_chunks panics on a chunk of size zero and keeps none, so
\* (here for a positive target) the local chunks of
\* find_chunks_and_analyze_stack hold none either.
C7_SameProduction ==
    (driver = "find_chunks_and_analyze_stack" /\ target_chunk_size > 0) =>
        \A k \in 1..Len(local_chunks) : local_chunks[k].size # 0

IsScenarioB == top_level_script \in ScenarioBScripts /\ target_chunk_size = 100

HasFlowOp(c) ==
    \E k \in 1..Len(StreamOf(c.scripts)) : IsFlowOp(StreamOf(c.scripts)[k])

\* C8 as claimed: in Scenario B every chunk finalized has net depth zero,
\* and the run ends by returning chunks: the content split over balanced
\* chunks, or one oversized chunk that holds the whole script.
C8_SplitOrOversized ==
    IsScenarioB =>
        /\ \A k \in 1..Len(Finalized) : ChunkDepth(Finalized[k]) = 0
        /\ Done =>
            /\ pc = "returned"
            /\ ChunksStream(Produced) = Flatten(top_level_script)

\* C8 as amended: in Scenario B no finalized chunk holds the open or the
\* close, every finalized chunk has net depth zero and is within the
\* target, and find_chunks does not return: it panics on a zero-size chunk.
C8_NoBoundaryInside ==
    IsScenarioB =>
        /\ \A k \in 1..Len(Finalized) :
            /\ ChunkDepth(Finalized[k]) = 0
            /\ ~HasFlowOp(Finalized[k])
            /\ Finalized[k].size <= target_chunk_size
        /\ pc # "returned"
        /\ pc = "panicked" => panic = "unable_to_fit"

\* find_chunks panicked on Scenario B after undo removed the open
\* conditional from the chunk
C8_Witness ==
    /\ IsScenarioB
    /\ driver = "find_chunks"
    /\ pc = "panicked"
    /\ panic = "unable_to_fit"
    /\ Last(call_stack) = push_script(<<OP_IF>>)

(***************************************************************************)
(* Greedy packing of a flat script.                                        *)
(***************************************************************************)
\* the top-level blocks are script_bufs without flow-control opcodes, none
\* larger than the target
FlatInput ==
    \A k \in 1..Len(top_level_script.blocks) :
        LET leaf == ChildOf(top_level_script.blocks[k])
        IN /\ is_script_buf(leaf)
           /\ ~contains_flow_op(leaf)
           /\ len(leaf) <= target_chunk_size

LeafStreams ==
    [k \in 1..Len(top_level_script.blocks) |-> FlattenBlock(top_level_script.blocks[k])]

RECURSIVE Concat(_)
Concat(ss) == IF ss = <<>> THEN <<>> ELSE Head(ss) \o Concat(Tail(ss))

RECURSIVE LongestRun(_, _)
\* how many leading leaves fit into room bytes
LongestRun(leaves, room) ==
    IF leaves = <<>> \/ ScriptLen(Head(leaves)) > room THEN 0
    ELSE 1 + LongestRun(Tail(leaves), room - ScriptLen(Head(leaves)))

RECURSIVE GreedyRuns(_, _)
\* the leaves cut into longest runs of at most target bytes
GreedyRuns(leaves, target) ==
    LET n == LongestRun(leaves, target)
    IN IF leaves = <<>> \/ n = 0 THEN <<>>
       ELSE <<Concat(SubSeq(leaves, 1, n))>>
                \o GreedyRuns(SubSeq(leaves, n + 1, Len(leaves)), target)

\* C9: for a flat script every chunk finalized is the longest run of the
\* remaining leaves that fits the target, and a driver that returns has
\* produced all the runs.
C9_Greedy ==
    FlatInput =>
        LET runs == GreedyRuns(LeafStreams, target_chunk_size)
        IN /\ Len(Finalized) <= Len(runs)
           /\ \A k \in 1..Len(Finalized) :
                /\ StreamOf(Finalized[k].scripts) = runs[k]
                /\ Finalized[k].size = ScriptLen(runs[k])
           /\ pc = "returned" => Len(Produced) = Len(runs)

\* Scenario A: three leaves of 40 with target 90 give chunks of 80 and 40
C9_Witness ==
    /\ top_level_script = ScenarioA
    /\ target_chunk_size = 90
    /\ FlatInput
    /\ driver = "find_chunks"
    /\ pc = "returned"
    /\ result = <<80, 40>>

Remaining == StreamOf(Reverse(call_stack))

\* what the running find_next_chunk call has taken from the call_stack and
\* not returned yet: the scripts kept, the ledger, and what undo has removed
\* from the ledger's end so far (removed last, so earliest in the program)
InFlight ==
    (StreamOf(chunk_scripts) \o StreamOf(undo_info.call_stack))
        \o StreamOf(Reverse(removed_scripts))

AssertPanicked == pc = "panicked" /\ panic = "more_endif_than_if"

\* C12: at every point of a run that has not failed its assert!, the chunks
\* returned so far, then what the running find_next_chunk call holds, then
\* the call_stack popped top first, are the instruction stream of the
\* top-level script; between two find_next_chunk calls nothing is held, so
\* the returned chunks followed by the call_stack are the whole program.
\* Expanding a builder keeps this, as its blocks are pushed in reverse.
C12_Partition ==
    ~AssertPanicked =>
        /\ (ChunksStream(Finalized) \o InFlight) \o Remaining = Flatten(top_level_script)
        /\ pc \in {"loop", "chunk", "stats", "returned"} =>
            ChunksStream(Finalized) \o Remaining = Flatten(top_level_script)

\* a builder of several blocks has just been expanded onto the call_stack
\* while earlier chunks are finished
C12_Witness ==
    /\ pc = "pack"
    /\ depth > 0
    /\ Len(call_stack) >= 3
    /\ Produced # <<>>
    /\ ChunksStream(Produced) # <<>>

\* the k-th script popped from stack, k = 1 for the top
Popped(stack, k) == stack[Len(stack) - k + 1]

\* C13: when undo returns, every script it removed from the ledger's end,
\* with or without a flow-control opcode, is on the call_stack above what
\* the call_stack held (so above a builder pushed back unconsumed); popping
\* yields the removed scripts earliest in the program first, that is the
\* one removed last first; none is dropped and nothing beneath is touched.
C13_RemovedReturned ==
    [][pc = "undo_done" =>
        /\ Len(call_stack') = Len(call_stack) + Len(removed_scripts)
        /\ SubSeq(call_stack', 1, Len(call_stack)) = call_stack
        /\ \A k \in 1..Len(removed_scripts) :
            Popped(call_stack', k) = removed_scripts[Len(removed_scripts) - k + 1]
        /\ ScriptLen(StreamOf(SubSeq(call_stack', Len(call_stack) + 1, Len(call_stack'))))
              = removed_len
      ]_vars

\* find_next_chunk returned with a builder pushed back beneath an OP_IF and
\* a script without flow-control opcodes that undo took out of the chunk:
\* both would have fitted
C13_Witness ==
    /\ pc = "chunk"
    /\ Len(call_stack) >= 3
    /\ Last(call_stack) = push_script(<<OP_IF>>)
    /\ ~contains_flow_op(Popped(call_stack, 2))
    /\ len(Popped(call_stack, 2)) > 0
    /\ chunk.size + 1 + len(Popped(call_stack, 2)) <= target_chunk_size

(***************************************************************************)
(* undo, seen from the ledger it is given.                                 *)
(***************************************************************************)
\* the instruction stream of what undo keeps
KeptStream == StreamOf(undo_info.call_stack)

\* the instruction stream of what undo has removed, in program order
RemovedStream == StreamOf(Reverse(removed_scripts))

\* the instruction stream of the ledger undo was given
LedgerStream == KeptStream \o RemovedStream

\* C14: while undo removes from the ledger's end, the kept scripts followed
\* by the removed ones remain the ledger's instruction stream, in order;
\* when the removing loop ends the kept part has net depth zero and no
\* longer prefix of the ledger's stream has: undo stopped at the first point,
\* coming from the end, where the open count is zero, so it removed exactly
\* enough.
C14_LongestBalancedPrefix ==
    /\ [](pc = "undo_done" =>
            /\ ScriptDepth(KeptStream) = 0
            /\ \A n \in (Len(KeptStream) + 1)..Len(LedgerStream) :
                ScriptDepth(SubSeq(LedgerStream, 1, n)) # 0)
    /\ [][(pc = "undo" /\ pc' # "panicked") => LedgerStream' = LedgerStream]_vars

\* undo stopped with part of the ledger kept, after it removed an OP_IF and
\* a script behind it
C14_Witness ==
    /\ pc = "undo_done"
    /\ KeptStream # <<>>
    /\ Len(removed_scripts) >= 2
    /\ Len(RemovedStream) >= 2

\* C15: undo never hands back a kept part with open conditionals: when the
\* removing loop ends, the kept scripts have net depth zero and so has the
\* chunk built from them; a removing loop that finds the ledger empty does
\* not return, it panics.
C15_BalancedOrAbort ==
    /\ [](pc = "undo_done" =>
            /\ undo_info.num_unclosed_ifs = 0
            /\ ScriptDepth(KeptStream) = 0
            /\ ScriptDepth(StreamOf(chunk_scripts) \o KeptStream) = 0)
    /\ [][(pc = "undo" /\ undo_info.call_stack = <<>>) =>
            (pc' = "panicked" /\ panic' = "not_all_if_closed")]_vars
    /\ [][(pc = "undo" /\ pc' = "undo_done") => undo_info.call_stack # <<>>]_vars

\* the removing loop ended only when the last entry of the ledger, an
\* OP_IF, was removed: nothing is kept
C15_Witness ==
    /\ pc = "undo_done"
    /\ undo_info.call_stack = <<>>
    /\ Len(removed_scripts) >= 3
    /\ removed_scripts[Len(removed_scripts)] = push_script(<<OP_IF>>)

\* C16 as claimed: depth counts the expansions find_next_chunk has made
\* since it last committed a builder (or since it was called); no more than
\* max_depth = 8 of them happen in a row.
C16_AtMostMaxDepthExpansions == depth <= max_depth

(***************************************************************************)
(* A script_buf larger than the target.                                    *)
(***************************************************************************)
\* the builder on top of the call_stack is a script_buf larger than the
\* target
OversizedTop ==
    /\ call_stack # <<>>
    /\ is_script_buf(Last(call_stack))
    /\ len(Last(call_stack)) > target_chunk_size

\* find_next_chunk holds nothing: no script kept, nothing in the ledger
NothingTaken == chunk_scripts = <<>> /\ chunk_len = 0 /\ undo_info = UndoInfoNew

\* a script_buf on top does not fit and passes the assert!
LeafDoesNotFit ==
    /\ pc = "pack"
    /\ call_stack # <<>>
    /\ is_script_buf(Last(call_stack))
    /\ AssertNotNegative(undo_info, Last(call_stack))
    /\ ~Fits(chunk_len, len(Last(call_stack)))

PushedBack ==
    /\ pc' = "undo_entry"
    /\ UNCHANGED <<call_stack, chunk_scripts, chunk_len, undo_info>>

\* the target is positive and chunks, none of size zero, were returned
AfterChunk ==
    /\ target_chunk_size > 0
    /\ Produced # <<>>
    /\ \A k \in 1..Len(Produced) : Produced[k].size > 0

\* C17 as claimed: a script_buf that does not fit is pushed back and the
\* loop ends with the chunk as committed; and a find_next_chunk call that
\* starts, after an earlier chunk, with a script_buf larger than the target
\* on top takes it as its chunk.
C17_OversizedLeafOwnChunk ==
    /\ [][LeafDoesNotFit => PushedBack]_vars
    /\ [][(LeafDoesNotFit /\ OversizedTop /\ NothingTaken /\ depth = 0 /\ AfterChunk)
            => (call_stack' = Front(call_stack)
                /\ chunk_len' = len(Last(call_stack)))]_vars

\* C17 as amended: a script_buf that does not fit is pushed back and the
\* loop ends with the chunk as committed; a script_buf larger than the
\* target is never a chunk: the call that finds it on top with nothing taken
\* returns a chunk of size zero and leaves it on top, and find_chunks panics
\* on that chunk.
C17_OversizedLeafNeverChunk ==
    /\ [](\A k \in 1..Len(Finalized) : ~IsOversizedLeaf(Finalized[k]))
    /\ [][LeafDoesNotFit => PushedBack]_vars
    /\ [][(pc = "undo_entry" /\ NothingTaken /\ OversizedTop) =>
            /\ pc' = "chunk"
            /\ chunk' = ChunkNew(<<>>, 0)
            /\ call_stack' = call_stack]_vars
    /\ [][(pc = "chunk" /\ driver = "find_chunks" /\ chunk.size = 0 /\ OversizedTop) =>
            /\ pc' = "panicked"
            /\ panic' = "unable_to_fit"
            /\ call_stack' = call_stack]_vars

\* find_chunks kept a chunk, the next call found a script_buf larger than
\* the target on top, and find_chunks panicked with it still on top
C17_Witness ==
    /\ driver = "find_chunks"
    /\ pc = "panicked"
    /\ panic = "unable_to_fit"
    /\ OversizedTop
    /\ chunks # <<>>
    /\ target_chunk_size > 0

(***************************************************************************)
(* The budget of expansions.                                               *)
(***************************************************************************)
\* the builder on top does not fit, passes the assert!, and depth is past
\* max_depth
BudgetExhausted ==
    /\ pc = "pack"
    /\ call_stack # <<>>
    /\ AssertNotNegative(undo_info, Last(call_stack))
    /\ ~Fits(chunk_len, len(Last(call_stack)))
    /\ depth > max_depth

DeadEndPanicked ==
    pc = "panicked" /\ panic = "no_support_for_chunking_up_scriptbufs"

RECURSIVE SumLen(_)
\* the lengths of a sequence of StructuredScripts, added up
SumLen(scripts) == IF scripts = <<>> THEN 0 ELSE len(Head(scripts)) + SumLen(Tail(scripts))

RECURSIVE SumDepth(_)
\* the unclosed ifs of a sequence of StructuredScripts, added up
SumDepth(scripts) ==
    IF scripts = <<>> THEN 0 ELSE num_unclosed_ifs(Head(scripts)) + SumDepth(Tail(scripts))

\* C19: the size of every chunk find_next_chunk has returned is the sum of
\* the lengths of the chunk's scripts, also when undo split scripts of the
\* ledger and its removed length was subtracted.
C19_SizeAccounting ==
    \A k \in 1..Len(Finalized) : Finalized[k].size = SumLen(Finalized[k].scripts)

\* undo split a script_buf of the ledger: the chunk keeps the part before
\* its OP_IF, and the OP_IF is back on the call_stack
C19_Witness ==
    /\ pc = "chunk"
    /\ chunk.size > 0
    /\ chunk.scripts # <<>>
    /\ ~HasFlowOp(chunk)
    /\ call_stack # <<>>
    /\ Last(call_stack) = push_script(<<OP_IF>>)
    /\ chunk.size + 1 <= target_chunk_size
    /\ \E k \in 1..Len(top_level_script.blocks) :
        top_level_script.blocks[k] = ScriptBlock(<<OP_1, OP_IF>>)

\* C20: while find_next_chunk is in its packing loop, and when it leaves
\* it, the ledger's num_unclosed_ifs is the sum of the unclosed ifs of the
\* scripts it holds and its size the sum of their lengths; the count is
\* never negative and the ledger holds a script exactly when the count is
\* greater than zero.  A commit that empties the ledger has put its scripts,
\* in order, and then the committed builder at the end of the chunk.
C20_LedgerInvariant ==
    /\ [](pc \in {"pack", "undo_entry"} =>
            /\ undo_info.num_unclosed_ifs = SumDepth(undo_info.call_stack)
            /\ undo_info.size = SumLen(undo_info.call_stack)
            /\ undo_info.num_unclosed_ifs >= 0
            /\ undo_info.call_stack # <<>> <=> undo_info.num_unclosed_ifs > 0)
    /\ [][(pc = "pack" /\ pc' = "pack" /\ undo_info.call_stack # <<>>
                /\ undo_info'.call_stack = <<>>) =>
            chunk_scripts' =
                (chunk_scripts \o undo_info.call_stack) \o <<Last(call_stack)>>]_vars

\* the ledger holds several scripts with two OP_IF open
C20_Witness ==
    /\ pc = "pack"
    /\ Len(undo_info.call_stack) >= 2
    /\ undo_info.num_unclosed_ifs >= 2
    /\ undo_info.size >= 2

====
